---- MODULE Spec2Model ----
(***************************************************************************)
(* Model of server.js: the pacing dispatcher (sendToOneGroup, sendToMany), *)
(* the immediate-send endpoint, the one-shot scheduler (schedules.json,    *)
(* SCHEDULES, rearmSchedules and its timer callbacks) and the recurring    *)
(* campaign scheduler (campaigns.json, CAMPAIGNS, scheduleCampaignEngine   *)
(* and its cron callbacks).                                                *)
(*                                                                         *)
(* Node runs every handler and every callback to its next await without    *)
(* interruption, so one action is one such stretch of code.                *)
(***************************************************************************)
EXTENDS Integers, Sequences, FiniteSets, TLC

VARIABLES
    waReady,      \* let waReady                              (server.js:65)
    files,        \* the media paths fs.existsSync finds under __dirname
    now,          \* Date.now(), in coarse units
    runs,         \* the async executions suspended inside sendToMany
    resp,         \* what the step just taken answered or recorded (NoResp: nothing)
    sendReq,      \* the POST /api/send requests received and not yet handled
    schedStore,   \* schedules.json                            (server.js:221)
    SCHEDULES,    \* const SCHEDULES = new Map(): id -> timeout (server.js:220)
    timers,       \* the timeouts that are set and have neither fired nor been cleared
    snaps,        \* the array `arr` each rearmSchedules() call loaded, shared by its callbacks
    builds,       \* how many times the schedulers were (re)built; numbers what a build creates
    campStore,    \* campaigns.json                            (server.js:338)
    CAMPAIGNS,    \* const CAMPAIGNS = new Map(): id -> {job, running} (server.js:337)
    triggers      \* the cron jobs created and not yet collected: closure c, state.running, stopped

vars == <<waReady, files, now, runs, resp, sendReq, schedStore, SCHEDULES, timers, snaps,
          builds, campStore, CAMPAIGNS, triggers>>

oneShotVars == <<schedStore, SCHEDULES, timers, snaps, builds>>
campaignVars == <<campStore, CAMPAIGNS, triggers>>

----------------------------------------------------------------------------
(* Bounds of the model *)

MaxTargets == 2      \* longest ids[] a request carries
MaxNow == 1          \* the clock runs 0..MaxNow
MaxBuilds == 2       \* rearmSchedules() and scheduleCampaignEngine() run at most this often

(* Program constants *)

PacingFloorMs == 1500       \* Math.max(1500, ...)              (server.js:143)
DefaultDelayMs == 2000      \* mediaDelayMs = 2000, `|| 2000`   (server.js:196)
NoTime == -1                \* lastRunAt: null                  (server.js:470)

----------------------------------------------------------------------------
(* JavaScript values that reach the delay arithmetic *)

Undef == [t |-> "undefined", n |-> 0, s |-> ""]
Null == [t |-> "null", n |-> 0, s |-> ""]
NaN == [t |-> "nan", n |-> 0, s |-> ""]
Num(k) == [t |-> "number", n |-> k, s |-> ""]
Str(x) == [t |-> "string", n |-> 0, s |-> x]

\* Number(v): undefined and unparsable strings give NaN, null and "" give 0
ToNumber(v) ==
    CASE v.t = "number" -> v
      [] v.t = "nan" -> NaN
      [] v.t = "undefined" -> NaN
      [] v.t = "null" -> Num(0)
      [] v.t = "string" ->
            CASE v.s = "" -> Num(0)
              [] v.s = "0" -> Num(0)
              [] v.s = "900" -> Num(900)
              [] v.s = "3000" -> Num(3000)
              [] OTHER -> NaN

Bool(b) == [t |-> "boolean", n |-> IF b THEN 1 ELSE 0, s |-> ""]

\* the truthiness test of `a || b`, Boolean(a)
Truthy(v) ==
    CASE v.t = "number" -> v.n # 0
      [] v.t = "boolean" -> v.n # 0
      [] v.t = "string" -> v.s # ""
      [] OTHER -> FALSE

\* a || b
OrElse(a, b) == IF Truthy(a) THEN a ELSE b

\* a ?? b
Coalesce(a, b) == IF a.t \in {"undefined", "null"} THEN b ELSE a

\* Math.max(a, b) on numbers: NaN if either is NaN
MathMax(a, b) ==
    IF a.t = "nan" \/ b.t = "nan" THEN NaN
    ELSE IF a.n >= b.n THEN a ELSE b

\* the delay setTimeout(r, ms) really waits: NaN and values below 1 become 1 ms
TimeoutMs(v) == IF v.t = "nan" \/ v.n < 1 THEN 1 ELSE v.n

\* JSON.parse(JSON.stringify(v)) of a property value: NaN is written as null
JsonRoundTrip(v) == IF v.t = "nan" THEN Null ELSE v

----------------------------------------------------------------------------
(* Targets and media *)

GoodTargets == {"a@g.us", "b@g.us"}
BadTargets == {"a@c.us"}
Targets == GoodTargets \cup BadTargets

\* /@g\.us$/.test(String(x))
MatchesGrammar(x) == x \in GoodTargets

MediaPaths == {"/uploads/1.png", "/uploads/2.png"}
Texts == {"", "hola"}

SeqsUpTo(S, n) == UNION {[1..k -> S] : k \in 0..n}

\* ids.filter(x => !/@g\.us$/.test(String(x)))
BadIds(ids) == SelectSeq(ids, LAMBDA x : ~MatchesGrammar(x))

\* media.every(p => fs.existsSync(abs))
FilesExist(media) == \A j \in 1..Len(media) : media[j] \in files

----------------------------------------------------------------------------
(* The executions suspended inside sendToMany.  A run is the async function *)
(* that called sendToMany together with the dispatcher's own position.      *)

RunSlots == {1, 2}

NoRun == [kind |-> "none", job |-> "", h |-> 0, ix |-> 0, arr |-> <<>>,
          ids |-> <<>>, text |-> "", media |-> <<>>,
          mediaDelayMs |-> Undef, groupDelayMs |-> Undef,
          i |-> 0, k |-> 0, first |-> FALSE, pc |-> "none",
          results |-> <<>>, sends |-> <<>>, waits |-> <<>>, mwaits |-> <<>>]

NoItem == [id |-> ""]

NoResp == [op |-> "none", id |-> "", code |-> 0, prev |-> "", status |-> "",
           item |-> NoItem,
           results |-> <<>>, sends |-> <<>>, waits |-> <<>>]

FreeSlots == {s \in RunSlots : runs[s].kind = "none"}
FreeSlot == CHOOSE s \in FreeSlots : \A u \in FreeSlots : s <= u

\* the same sleep without the `|| 0`: a NaN delay reaches setTimeout
GroupWaitMs_NoNaNGuard(groupDelayMs) ==
    TimeoutMs(MathMax(Num(PacingFloorMs), ToNumber(groupDelayMs)))

\* sleep(Math.max(1500, Number(groupDelayMs) || 0)) after a target     (server.js:143)
GroupWaitMs(groupDelayMs) ==
    TimeoutMs(MathMax(Num(PacingFloorMs), OrElse(ToNumber(groupDelayMs), Num(0))))

\* sleep(Math.max(0, Number(mediaDelayMs) || 0)) after a media item    (server.js:129)
MediaWaitMs(mediaDelayMs) ==
    TimeoutMs(MathMax(Num(0), OrElse(ToNumber(mediaDelayMs), Num(0))))

\* the same loop without the try/catch: the first failure ends the batch
TargetDone_Abort(r, ok, error) ==
    IF ok
    THEN [r EXCEPT !.results = Append(@, [id |-> r.ids[r.i], ok |-> ok, error |-> error]),
                   !.waits = Append(@, GroupWaitMs(r.groupDelayMs)),
                   !.pc = "gsleep"]
    ELSE [r EXCEPT !.results = Append(@, [id |-> r.ids[r.i], ok |-> ok, error |-> error]),
                   !.i = Len(r.ids),
                   !.pc = "gsleep"]

\* sendToMany's try/catch around one target: push the outcome, then start the sleep
TargetDone(r, ok, error) ==
    [r EXCEPT !.results = Append(@, [id |-> r.ids[r.i], ok |-> ok, error |-> error]),
              !.waits = Append(@, GroupWaitMs(r.groupDelayMs)),
              !.pc = "gsleep"]

\* the same turn with the caption on every item
BeginMedia_CaptionAll(r) ==
    IF r.media[r.k] \notin files
    THEN TargetDone([r EXCEPT !.sends = Append(@, [i |-> r.i, to |-> r.ids[r.i],
                                  item |-> r.media[r.k], caption |-> "undefined",
                                  st |-> "noent"])],
                    FALSE, "ENOENT")
    ELSE [r EXCEPT !.sends = Append(@, [i |-> r.i, to |-> r.ids[r.i], item |-> r.media[r.k],
                                        caption |-> r.text, st |-> "pending"]),
                   !.pc = "send"]

\* one turn of `for (const p of mediaPaths)` up to its await client.sendMessage
BeginMedia(r) ==
    IF r.media[r.k] \notin files
    THEN \* MessageMedia.fromFilePath throws: nothing is transmitted
         TargetDone([r EXCEPT !.sends = Append(@, [i |-> r.i, to |-> r.ids[r.i],
                                  item |-> r.media[r.k], caption |-> "undefined",
                                  st |-> "noent"])],
                    FALSE, "ENOENT")
    ELSE [r EXCEPT !.sends = Append(@, [i |-> r.i, to |-> r.ids[r.i], item |-> r.media[r.k],
                                        caption |-> IF r.first THEN r.text ELSE "undefined",
                                        st |-> "pending"]),
                   !.pc = "send"]

\* sendToOneGroup from its entry up to its first await
BeginTarget(r) ==
    IF Len(r.media) = 0
    THEN IF r.text # ""
         THEN [r EXCEPT !.sends = Append(@, [i |-> r.i, to |-> r.ids[r.i], item |-> "text",
                                             caption |-> "undefined", st |-> "pending"]),
                        !.pc = "send"]
         ELSE TargetDone(r, TRUE, "")
    ELSE BeginMedia([r EXCEPT !.k = 1, !.first = TRUE])

\* sendToMany from its entry up to its first await
BeginMany(kind, job, h, ix, ids, text, media, mediaDelayMs, groupDelayMs) ==
    LET r == [NoRun EXCEPT !.kind = kind, !.job = job, !.h = h, !.ix = ix,
                           !.ids = ids, !.text = text, !.media = media,
                           !.mediaDelayMs = mediaDelayMs, !.groupDelayMs = groupDelayMs,
                           !.i = 1]
    IN IF Len(ids) = 0 THEN [r EXCEPT !.pc = "ret"] ELSE BeginTarget(r)

\* the awaited client.sendMessage settles: resolved (ok) or rejected
AfterSend(r0, ok) ==
    LET r == [r0 EXCEPT !.sends[Len(r0.sends)].st = IF ok THEN "ok" ELSE "threw"]
    IN
    IF ~ok THEN TargetDone(r, FALSE, "ETRANSPORT")
    ELSE IF Len(r.media) = 0 THEN TargetDone(r, TRUE, "")
    ELSE [r EXCEPT !.first = FALSE,
                   !.mwaits = Append(@, MediaWaitMs(r.mediaDelayMs)),
                   !.pc = "msleep"]

\* the sleep after a media item ends: next item, or the target is finished
AfterMediaSleep(r) ==
    IF r.k < Len(r.media) THEN BeginMedia([r EXCEPT !.k = r.k + 1])
    ELSE TargetDone(r, TRUE, "")

\* the sleep after a target ends: next target, or return results
AfterGroupSleep(r) ==
    IF r.i < Len(r.ids) THEN BeginTarget([r EXCEPT !.i = r.i + 1])
    ELSE [r EXCEPT !.pc = "ret"]

\* the run is at the sleep after which sendToMany returns
AtLastSleep(r) == r.pc = "gsleep" /\ r.i = Len(r.ids)

\* a pending client.sendMessage of a run settles
SendSettles(s) ==
    /\ runs[s].pc = "send"
    /\ \E ok \in BOOLEAN : runs' = [runs EXCEPT ![s] = AfterSend(runs[s], ok)]
    /\ resp' = NoResp
    /\ UNCHANGED <<waReady, files, now, sendReq, oneShotVars, campaignVars>>

\* a pending sleep of a run ends and sendToMany goes on with the next item or target
SleepEnds(s) ==
    /\ \/ /\ runs[s].pc = "msleep"
          /\ runs' = [runs EXCEPT ![s] = AfterMediaSleep(runs[s])]
       \/ /\ runs[s].pc = "gsleep" /\ ~AtLastSleep(runs[s])
          /\ runs' = [runs EXCEPT ![s] = AfterGroupSleep(runs[s])]
    /\ resp' = NoResp
    /\ UNCHANGED <<waReady, files, now, sendReq, oneShotVars, campaignVars>>

----------------------------------------------------------------------------
(* The environment: transport events, uploads and removals, the clock *)

\* client.on('ready')
ClientReady ==
    /\ ~waReady
    /\ waReady' = TRUE
    /\ resp' = NoResp
    /\ UNCHANGED <<files, now, runs, sendReq, oneShotVars, campaignVars>>

\* client.on('qr' | 'auth_failure' | 'disconnected')
ClientNotReady ==
    /\ waReady
    /\ waReady' = FALSE
    /\ resp' = NoResp
    /\ UNCHANGED <<files, now, runs, sendReq, oneShotVars, campaignVars>>

\* a file appears in or disappears from the uploads directory
FileChange(P) ==
    /\ \E p \in P : files' = IF p \in files THEN files \ {p} ELSE files \cup {p}
    /\ resp' = NoResp
    /\ UNCHANGED <<waReady, now, runs, sendReq, oneShotVars, campaignVars>>

Tick ==
    /\ now < MaxNow
    /\ now' = now + 1
    /\ resp' = NoResp
    /\ UNCHANGED <<waReady, files, runs, sendReq, oneShotVars, campaignVars>>

----------------------------------------------------------------------------
(* POST /api/send *)

DelayValues == {Undef, Null, Num(-1), Num(3000), Str("abc")}

MediaLists == {<<>>, <<"/uploads/1.png">>, <<"/uploads/1.png", "/uploads/2.png">>,
               <<"/uploads/2.png", "/uploads/1.png">>}

SendBodies ==
    [ids : SeqsUpTo(Targets, MaxTargets), text : Texts,
     media : MediaLists,
     mediaDelayMs : {Num(-1)}, groupDelayMs : DelayValues]

\* a destructuring default: `= 2000` applies to undefined only
Defaulted(v, d) == IF v.t = "undefined" THEN d ELSE v

ApiSend(body) ==
    /\ sendReq # <<>> /\ body = Head(sendReq)
    /\ sendReq' = Tail(sendReq)
    /\ FreeSlots # {}
    /\ IF ~waReady
       THEN /\ resp' = [NoResp EXCEPT !.op = "send", !.code = 409]
            /\ runs' = runs
       ELSE IF Len(body.ids) = 0
       THEN /\ resp' = [NoResp EXCEPT !.op = "send", !.code = 400]
            /\ runs' = runs
       ELSE IF Len(BadIds(body.ids)) > 0
       THEN /\ resp' = [NoResp EXCEPT !.op = "send", !.code = 400]
            /\ runs' = runs
       ELSE IF ~FilesExist(body.media)
       THEN /\ resp' = [NoResp EXCEPT !.op = "send", !.code = 400]
            /\ runs' = runs
       ELSE /\ runs' = [runs EXCEPT ![FreeSlot] =
                  BeginMany("send", "", 0, 0, body.ids, body.text, body.media,
                            ToNumber(Defaulted(body.mediaDelayMs, Num(DefaultDelayMs))),
                            ToNumber(Defaulted(body.groupDelayMs, Num(DefaultDelayMs))))]
            /\ resp' = NoResp
    /\ UNCHANGED <<waReady, files, now, oneShotVars, campaignVars>>

\* sendToMany returns to the handler: res.json({ ok: true, results })
ApiSendReturns(s) ==
    /\ runs[s].kind = "send" /\ AtLastSleep(runs[s])
    /\ resp' = [NoResp EXCEPT !.op = "send", !.code = 200, !.item = runs[s],
                              !.results = runs[s].results,
                              !.sends = runs[s].sends,
                              !.waits = runs[s].waits]
    /\ runs' = [runs EXCEPT ![s] = NoRun]
    /\ UNCHANGED <<waReady, files, now, sendReq, oneShotVars, campaignVars>>

----------------------------------------------------------------------------
(* One-shot schedules: schedules.json, SCHEDULES and rearmSchedules *)

JobIds == {"s1", "s2"}

\* one snapshot `arr` per call of rearmSchedules(): 0 is the call at startup
SnapSlots == 0..MaxBuilds

Max0(x) == IF x > 0 THEN x ELSE 0

\* arr.findIndex(x => x.id === id), with 0 for -1
FindIndex(arr, id) ==
    IF \E j \in 1..Len(arr) : arr[j].id = id
    THEN CHOOSE j \in 1..Len(arr) : arr[j].id = id /\ \A m \in 1..(j - 1) : arr[m].id # id
    ELSE 0

\* what loadSchedules() returns after saveSchedules(arr): the JSON round trip
SaveLoad(arr) == [j \in 1..Len(arr) |-> [arr[j] EXCEPT !.groupDelayMs = JsonRoundTrip(@)]]

\* the status the store holds for id, "" when it holds no such record
StatusOf(store, id) ==
    IF FindIndex(store, id) = 0 THEN "" ELSE store[FindIndex(store, id)].status

TimerRuns(R) == {s \in RunSlots : R[s].kind = "timer"}

\* the snapshots still reachable from a pending timeout or a suspended callback
UsedSnaps(T, R) == {t.h : t \in T} \cup {R[s].h : s \in TimerRuns(R)}

\* an unreachable `arr` is garbage
Collect(N, T, R) == [x \in SnapSlots |-> IF x \in UsedSnaps(T, R) THEN N[x] ELSE <<>>]

\* the clearing loop forgotten: the old timeouts stay set
ClearTimeouts_Forgotten(S, T) == T

\* for (const [, t] of SCHEDULES) clearTimeout(t)                     (server.js:231)
ClearTimeouts(S, T) == T \ {S[id] : id \in DOMAIN S}

\* the timeout one pending element of arr gets                         (server.js:239-254)
HandleOf(h, arr, j) == [h |-> h, ix |-> j, due |-> now + Max0(arr[j].when - now)]

\* a scheduler that treats a job whose time has passed as missed
ArmedIndexes_SkipMissed(arr) ==
    {j \in 1..Len(arr) : arr[j].status = "pending" /\ arr[j].when >= now}

\* arr.forEach(s => { if (s.status !== 'pending') return; ... })       (server.js:237-257)
ArmedIndexes(arr) == {j \in 1..Len(arr) : arr[j].status = "pending"}

\* rearmSchedules(), as call number h: what it leaves in SCHEDULES (S), the set
\* timeouts (T), the snapshots (N)
RearmAs(h, store, S, T, N, R) ==
    LET cleared == ClearTimeouts(S, T)
        arr == store
        pend == ArmedIndexes(arr)
        last(id) == CHOOSE j \in pend : arr[j].id = id /\ \A m \in pend : arr[m].id = id => m <= j
        newT == cleared \cup {HandleOf(h, arr, j) : j \in pend}
    IN [S |-> [id \in {arr[j].id : j \in pend} |-> HandleOf(h, arr, last(id))],
        T |-> newT,
        N |-> Collect([N EXCEPT ![h] = arr], newT, R)]

RearmSchedules(store, S, T, N, R) == RearmAs(builds + 1, store, S, T, N, R)

\* a timeout comes due and its callback runs up to its first await    (server.js:242-254)
FireTimer(t) ==
    /\ t \in timers
    /\ now >= t.due
    /\ LET s == snaps[t.h][t.ix]
       IN IF ~waReady
          THEN \* throw new Error(...) is caught: s.status = 'failed'; saveSchedules(arr)
               LET arr == [snaps[t.h] EXCEPT ![t.ix].status = "failed",
                                             ![t.ix].error = "WhatsApp not ready"]
               IN /\ schedStore' = SaveLoad(arr)
                  /\ timers' = timers \ {t}
                  /\ snaps' = Collect([snaps EXCEPT ![t.h] = arr], timers', runs)
                  /\ runs' = runs
                  /\ resp' = [NoResp EXCEPT !.op = "fire", !.id = s.id, !.item = s,
                                            !.prev = StatusOf(schedStore, s.id),
                                            !.status = "failed"]
          ELSE /\ FreeSlots # {}
               /\ runs' = [runs EXCEPT ![FreeSlot] =
                     BeginMany("timer", s.id, t.h, t.ix, s.ids, s.message, s.media,
                               s.mediaDelayMs, s.groupDelayMs)]
               /\ timers' = timers \ {t}
               /\ snaps' = Collect(snaps, timers', runs')
               /\ schedStore' = schedStore
               /\ resp' = [NoResp EXCEPT !.op = "fire", !.id = s.id, !.item = s,
                                         !.prev = StatusOf(schedStore, s.id),
                                         !.sends = runs'[FreeSlot].sends]
    /\ UNCHANGED <<waReady, files, now, sendReq, SCHEDULES, builds, campaignVars>>

\* sendToMany returns to the callback: s.status = 'sent'; saveSchedules(arr)
TimerReturns(sl) ==
    /\ runs[sl].kind = "timer" /\ AtLastSleep(runs[sl])
    /\ LET r == runs[sl]
           arr == [snaps[r.h] EXCEPT ![r.ix].status = "sent"]
       IN /\ schedStore' = SaveLoad(arr)
          /\ runs' = [runs EXCEPT ![sl] = NoRun]
          /\ snaps' = Collect([snaps EXCEPT ![r.h] = arr], timers, runs')
          /\ resp' = [NoResp EXCEPT !.op = "fired", !.id = r.job,
                                    !.prev = StatusOf(schedStore, r.job),
                                    !.status = "sent"]
    /\ UNCHANGED <<waReady, files, now, sendReq, SCHEDULES, timers, builds, campaignVars>>

\* an ISO timestamp for instant n
When(n) == [t |-> "string", n |-> n, s |-> "iso"]

\* Date.parse(v)
DateParse(v) == IF v.t = "string" /\ v.s = "iso" THEN Num(v.n) ELSE NaN

\* request bodies: one that passes every validation, and bodies that differ from it in
\* one field
GoodOneShot(id, media, n) ==
    [id |-> id, ids |-> <<"a@g.us">>, message |-> "hola", media |-> media,
     when |-> When(n), mediaDelayMs |-> Undef, groupDelayMs |-> Undef]

OneShotPayloads(J, medias, instants) ==
    LET good == {GoodOneShot(id, m, n) : id \in J \cup {""}, m \in medias, n \in instants}
        bad(ok) == {[ok EXCEPT !.ids = <<>>],
                    [ok EXCEPT !.ids = <<"a@c.us">>],
                    [ok EXCEPT !.when = Undef],
                    [ok EXCEPT !.when = Str("tomorrow")]}
    IN good \cup UNION {bad(ok) : ok \in good}

\* the item POST /api/schedules builds                                 (server.js:284-295)
ItemOf(p, id) ==
    [id |-> id,
     ids |-> p.ids,
     message |-> p.message,
     media |-> p.media,
     when |-> DateParse(p.when).n,
     mediaDelayMs |-> MathMax(Num(0), ToNumber(OrElse(p.mediaDelayMs, Num(DefaultDelayMs)))),
     groupDelayMs |-> MathMax(Num(PacingFloorMs),
                              ToNumber(OrElse(p.groupDelayMs, Num(DefaultDelayMs)))),
     status |-> "pending",
     error |-> ""]

\* a merge in place of the replacement: the stored status survives
Put_KeepStatus(arr, item) ==
    IF FindIndex(arr, item.id) > 0
    THEN [arr EXCEPT ![FindIndex(arr, item.id)] = [item EXCEPT !.status = arr[FindIndex(arr, item.id)].status]]
    ELSE Append(arr, item)

\* if (idx >= 0) arr[idx] = item; else arr.push(item)                  (server.js:297-298)
Put(arr, item) ==
    IF FindIndex(arr, item.id) > 0
    THEN [arr EXCEPT ![FindIndex(arr, item.id)] = item]
    ELSE Append(arr, item)

\* POST /api/schedules; nid is what nanoid(10) would return            (server.js:267-306)
Upsert(p, nid) ==
    LET id == IF p.id # "" THEN p.id ELSE nid
        item == ItemOf(p, id)
        bad == [NoResp EXCEPT !.op = "upsert", !.code = 400]
    IN
    /\ IF p.id = "" THEN FindIndex(schedStore, nid) = 0 ELSE nid = p.id
    /\ IF ~waReady
       THEN /\ resp' = [NoResp EXCEPT !.op = "upsert", !.code = 409]
            /\ UNCHANGED <<schedStore, SCHEDULES, timers, snaps, builds>>
       ELSE IF Len(p.ids) = 0 \/ Len(BadIds(p.ids)) > 0
                 \/ ~Truthy(p.when) \/ DateParse(p.when).t = "nan"
       THEN /\ resp' = bad
            /\ UNCHANGED <<schedStore, SCHEDULES, timers, snaps, builds>>
       ELSE /\ builds < MaxBuilds
            /\ schedStore' = SaveLoad(Put(schedStore, item))
            /\ builds' = builds + 1
            /\ LET re == RearmSchedules(schedStore', SCHEDULES, timers, snaps, runs)
               IN /\ SCHEDULES' = re.S
                  /\ timers' = re.T
                  /\ snaps' = re.N
            /\ resp' = [NoResp EXCEPT !.op = "upsert", !.id = id, !.code = 200,
                                      !.prev = StatusOf(schedStore, id), !.item = item]
    /\ UNCHANGED <<waReady, files, now, runs, sendReq, campaignVars>>

\* what is left of a Map after delete(id)
MapDelete(S, id) == [x \in DOMAIN S \ {id} |-> S[x]]

\* const t = SCHEDULES.get(id); if (t) clearTimeout(t)
ClearOne(S, T, id) == IF id \in DOMAIN S THEN T \ {S[id]} ELSE T

\* a cancel that clears the timer before it looks the record up
Cancel_ClearsFirst(id) ==
    LET idx == FindIndex(schedStore, id)
    IN
    /\ timers' = ClearOne(SCHEDULES, timers, id)
    /\ SCHEDULES' = MapDelete(SCHEDULES, id)
    /\ snaps' = Collect(snaps, timers', runs)
    /\ IF idx = 0
       THEN /\ resp' = [NoResp EXCEPT !.op = "cancel", !.id = id, !.code = 404]
            /\ UNCHANGED schedStore
       ELSE /\ schedStore' = SaveLoad([schedStore EXCEPT ![idx].status = "canceled"])
            /\ resp' = [NoResp EXCEPT !.op = "cancel", !.id = id, !.code = 200,
                                      !.prev = schedStore[idx].status]
    /\ UNCHANGED <<waReady, files, now, runs, sendReq, builds, campaignVars>>

\* POST /api/schedules/:id/cancel                                      (server.js:309-320)
Cancel(id) ==
    LET idx == FindIndex(schedStore, id)
    IN
    /\ IF idx = 0
       THEN /\ resp' = [NoResp EXCEPT !.op = "cancel", !.id = id, !.code = 404]
            /\ UNCHANGED <<schedStore, SCHEDULES, timers, snaps>>
       ELSE /\ schedStore' = SaveLoad([schedStore EXCEPT ![idx].status = "canceled"])
            /\ timers' = ClearOne(SCHEDULES, timers, id)
            /\ SCHEDULES' = MapDelete(SCHEDULES, id)
            /\ snaps' = Collect(snaps, timers', runs)
            /\ resp' = [NoResp EXCEPT !.op = "cancel", !.id = id, !.code = 200,
                                      !.prev = schedStore[idx].status]
    /\ UNCHANGED <<waReady, files, now, runs, sendReq, builds, campaignVars>>

\* DELETE /api/schedules/:id                                           (server.js:323-333)
Delete(id) ==
    LET nx == SelectSeq(schedStore, LAMBDA x : x.id # id)
    IN
    /\ IF Len(nx) = Len(schedStore)
       THEN /\ resp' = [NoResp EXCEPT !.op = "delete", !.id = id, !.code = 404]
            /\ UNCHANGED <<schedStore, SCHEDULES, timers, snaps, builds>>
       ELSE /\ schedStore' = SaveLoad(nx)
            /\ timers' = ClearOne(SCHEDULES, timers, id)
            /\ SCHEDULES' = MapDelete(SCHEDULES, id)
            /\ snaps' = Collect(snaps, timers', runs)
            /\ builds' = builds
            /\ resp' = [NoResp EXCEPT !.op = "delete", !.id = id, !.code = 200,
                                      !.prev = StatusOf(schedStore, id)]
    /\ UNCHANGED <<waReady, files, now, runs, sendReq, campaignVars>>

----------------------------------------------------------------------------
(* Recurring campaigns: campaigns.json, CAMPAIGNS and scheduleCampaignEngine *)

CampIds == {"c1", "c2"}

GoodCron == "*/20 * * * *"
DefaultTz == "America/New_York"

\* cron.validate(expr)
CronValidate(expr) == expr = GoodCron

\* validateTimeZone(tz): Intl.DateTimeFormat throws on an unknown zone  (server.js:347-355)
ValidateTimeZone(tz) == tz \in {DefaultTz, "Europe/Madrid"}

CronRuns(R) == {s \in RunSlots : R[s].kind = "cron"}

\* the cron job a handle names is the one a suspended callback belongs to
HasRun(R, h) == \E s \in CronRuns(R) : R[s].h = h.g /\ R[s].ix = h.ix

\* a stopped job with no callback in progress is garbage
CollectTriggers(G, R) ==
    LET keep == {h \in DOMAIN G : ~G[h].stopped \/ HasRun(R, h)}
    IN [h \in keep |-> G[h]]

\* for (const [id, j] of CAMPAIGNS) { try { j.job?.stop?.(); } catch {} } (server.js:358)
StopAll(C, G) ==
    [h \in DOMAIN G |-> IF h \in {C[id] : id \in DOMAIN C}
                        THEN [G[h] EXCEPT !.stopped = TRUE] ELSE G[h]]

\* the elements of items the loop arms                                 (server.js:362-368)
ArmedCampaigns(items) ==
    {j \in 1..Len(items) : items[j].enabled /\ CronValidate(items[j].cron)}

\* an engine that skips such an element and leaves it enabled
DisabledByEngine_None(items) == {}

\* the elements it disables: enabled, with a CRON that does not validate (server.js:364-367)
DisabledByEngine(items) ==
    {j \in 1..Len(items) : items[j].enabled /\ ~CronValidate(items[j].cron)}

\* const state = { running: false }: a new flag for every job the engine creates
NewTrigger(c) ==
    [c |-> c, running |-> FALSE, stopped |-> FALSE,
     tz |-> IF c.tz # "" /\ ValidateTimeZone(c.tz) THEN c.tz ELSE "undefined"]

\* scheduleCampaignEngine(), as call number g: what it leaves in campaigns.json
\* (store), CAMPAIGNS (C) and the cron jobs (G)                        (server.js:356-420)
EngineAs(g, store, C, G, R) ==
    LET stopped == StopAll(C, G)
        armed == ArmedCampaigns(store)
        items == [j \in 1..Len(store) |->
                    IF j \in DisabledByEngine(store)
                    THEN [store[j] EXCEPT !.enabled = FALSE] ELSE store[j]]
        last(id) == CHOOSE j \in armed :
                        items[j].id = id /\ \A m \in armed : items[m].id = id => m <= j
        new == {[g |-> g, ix |-> j] : j \in armed}
        all == [h \in DOMAIN stopped \cup new |->
                   IF h \in new THEN NewTrigger(items[h.ix]) ELSE stopped[h]]
    IN [store |-> items,
        C |-> [id \in {items[j].id : j \in armed} |-> [g |-> g, ix |-> last(id)]],
        G |-> CollectTriggers(all, R)]

ScheduleCampaignEngine(store, C, G, R) == EngineAs(builds + 1, store, C, G, R)

\* a catch block that records the message and forgets the time
NoteFailure_ErrorOnly(arr, id, message) ==
    IF FindIndex(arr, id) = 0 THEN arr
    ELSE [arr EXCEPT ![FindIndex(arr, id)].lastError = message]

\* arr[idx].lastError = message; arr[idx].lastRunAt = now, if the record is there
NoteFailure(arr, id, message) ==
    IF FindIndex(arr, id) = 0 THEN arr
    ELSE [arr EXCEPT ![FindIndex(arr, id)].lastError = message,
                     ![FindIndex(arr, id)].lastRunAt = now]

\* arr[idx].lastRunAt = now, if the record is there                    (server.js:396-401)
NoteSuccess(arr, id) ==
    IF FindIndex(arr, id) = 0 THEN arr
    ELSE [arr EXCEPT ![FindIndex(arr, id)].lastRunAt = now]

\* what the callback throws before it dispatches, "" if nothing        (server.js:378-385)
PreflightError(c) ==
    IF ~waReady THEN "WhatsApp not ready"
    ELSE IF ~FilesExist(c.media) THEN "images missing"
    ELSE IF Len(BadIds(c.ids)) > 0 THEN "invalid ids"
    ELSE ""

\* a callback that records an omitted tick as a failed run
CronFire_SkipRecorded(h) ==
    /\ h \in DOMAIN triggers
    /\ ~triggers[h].stopped
    /\ LET c == triggers[h].c
       IN IF triggers[h].running
          THEN /\ campStore' = NoteFailure(campStore, c.id, "skipped")
               /\ resp' = [NoResp EXCEPT !.op = "cronskip", !.id = c.id]
               /\ UNCHANGED <<runs, triggers>>
          ELSE IF PreflightError(c) # ""
          THEN /\ campStore' = NoteFailure(campStore, c.id, PreflightError(c))
               /\ resp' = [NoResp EXCEPT !.op = "cronfire", !.id = c.id,
                                         !.status = "failed"]
               /\ UNCHANGED <<runs, triggers>>
          ELSE /\ FreeSlots # {}
               /\ triggers' = [triggers EXCEPT ![h].running = TRUE]
               /\ runs' = [runs EXCEPT ![FreeSlot] =
                     BeginMany("cron", c.id, h.g, h.ix, c.ids, c.message, c.media,
                               MathMax(Num(0), ToNumber(OrElse(c.mediaDelayMs,
                                                               Num(DefaultDelayMs)))),
                               MathMax(Num(PacingFloorMs),
                                       ToNumber(OrElse(c.groupDelayMs,
                                                       Num(DefaultDelayMs)))))]
               /\ resp' = [NoResp EXCEPT !.op = "cronfire", !.id = c.id]
               /\ UNCHANGED campStore
    /\ UNCHANGED <<waReady, files, now, sendReq, oneShotVars, CAMPAIGNS>>

\* a cron job ticks and its callback runs up to its first await       (server.js:371-414)
CronFire(h) ==
    /\ h \in DOMAIN triggers
    /\ ~triggers[h].stopped
    /\ LET c == triggers[h].c
       IN IF triggers[h].running
          THEN \* omitted: an execution is in progress
               /\ resp' = [NoResp EXCEPT !.op = "cronskip", !.id = c.id]
               /\ UNCHANGED <<runs, campStore, triggers>>
          ELSE IF PreflightError(c) # ""
          THEN \* state.running = true; throw; catch: note the failure; finally: false
               /\ campStore' = NoteFailure(campStore, c.id, PreflightError(c))
               /\ resp' = [NoResp EXCEPT !.op = "cronfire", !.id = c.id,
                                         !.status = "failed"]
               /\ UNCHANGED <<runs, triggers>>
          ELSE /\ FreeSlots # {}
               /\ triggers' = [triggers EXCEPT ![h].running = TRUE]
               /\ runs' = [runs EXCEPT ![FreeSlot] =
                     BeginMany("cron", c.id, h.g, h.ix, c.ids, c.message, c.media,
                               MathMax(Num(0), ToNumber(OrElse(c.mediaDelayMs,
                                                               Num(DefaultDelayMs)))),
                               MathMax(Num(PacingFloorMs),
                                       ToNumber(OrElse(c.groupDelayMs,
                                                       Num(DefaultDelayMs)))))]
               /\ resp' = [NoResp EXCEPT !.op = "cronfire", !.id = c.id]
               /\ UNCHANGED campStore
    /\ UNCHANGED <<waReady, files, now, sendReq, oneShotVars, CAMPAIGNS>>

\* a callback without its finally block: the flag stays set
CronReturns_NoFinally(sl) ==
    /\ runs[sl].kind = "cron" /\ AtLastSleep(runs[sl])
    /\ LET r == runs[sl]
       IN /\ campStore' = NoteSuccess(campStore, r.job)
          /\ runs' = [runs EXCEPT ![sl] = NoRun]
          /\ triggers' = triggers
          /\ resp' = [NoResp EXCEPT !.op = "cronfired", !.id = r.job, !.status = "ok"]
    /\ UNCHANGED <<waReady, files, now, sendReq, oneShotVars, CAMPAIGNS>>

\* sendToMany returns to the callback: lastRunAt is saved; finally running = false
CronReturns(sl) ==
    /\ runs[sl].kind = "cron" /\ AtLastSleep(runs[sl])
    /\ LET r == runs[sl]
           h == [g |-> r.h, ix |-> r.ix]
       IN /\ campStore' = NoteSuccess(campStore, r.job)
          /\ runs' = [runs EXCEPT ![sl] = NoRun]
          /\ triggers' = CollectTriggers([triggers EXCEPT ![h].running = FALSE], runs')
          /\ resp' = [NoResp EXCEPT !.op = "cronfired", !.id = r.job, !.status = "ok"]
    /\ UNCHANGED <<waReady, files, now, sendReq, oneShotVars, CAMPAIGNS>>

\* request bodies: one that passes every validation, and bodies that differ from it in
\* one field
GoodCampaign(ids) ==
    [id |-> "", ids |-> ids, message |-> "hola", media |-> <<>>, cron |-> GoodCron,
     tz |-> "", enabled |-> Undef, mediaDelayMs |-> Undef, groupDelayMs |-> Undef]

CampPayloads(J, ids) ==
    LET ok == GoodCampaign(ids)
    IN {ok,
        [ok EXCEPT !.enabled = Bool(FALSE)],
        [ok EXCEPT !.cron = ""],
        [ok EXCEPT !.cron = "not-a-cron"],
        [ok EXCEPT !.tz = "Mars/Olympus"],
        [ok EXCEPT !.tz = "Europe/Madrid"],
        [ok EXCEPT !.ids = <<>>],
        [ok EXCEPT !.ids = <<"a@c.us">>],
        [ok EXCEPT !.media = <<"/uploads/1.png">>]}
       \cup {[ok EXCEPT !.id = j] : j \in J}

\* the item POST /api/campaigns builds                                 (server.js:459-473)
CampItemOf(p, id) ==
    [id |-> id,
     ids |-> p.ids,
     message |-> p.message,
     media |-> p.media,
     mediaDelayMs |-> MathMax(Num(0), ToNumber(OrElse(p.mediaDelayMs, Num(DefaultDelayMs)))),
     groupDelayMs |-> MathMax(Num(PacingFloorMs),
                              ToNumber(OrElse(p.groupDelayMs, Num(DefaultDelayMs)))),
     cron |-> p.cron,
     tz |-> IF p.tz # "" THEN p.tz ELSE DefaultTz,
     enabled |-> Truthy(Coalesce(p.enabled, Bool(TRUE))),
     lastRunAt |-> NoTime,
     lastError |-> ""]

\* arr[idx] = item keeping lastRunAt/lastError, or arr.push(item)      (server.js:475-484)
CampPut(arr, item) ==
    LET idx == FindIndex(arr, item.id)
    IN IF idx > 0
       THEN [arr EXCEPT ![idx] = [item EXCEPT !.lastRunAt = arr[idx].lastRunAt,
                                              !.lastError = arr[idx].lastError]]
       ELSE Append(arr, item)

\* saveCampaigns(arr); scheduleCampaignEngine()
SaveAndRebuild(arr) ==
    /\ builds < MaxBuilds
    /\ builds' = builds + 1
    /\ LET e == ScheduleCampaignEngine(arr, CAMPAIGNS, triggers, runs)
       IN /\ campStore' = e.store
          /\ CAMPAIGNS' = e.C
          /\ triggers' = e.G

\* POST /api/campaigns; nid is what nanoid(10) would return            (server.js:429-492)
CampUpsert(p, nid) ==
    LET id == IF p.id # "" THEN p.id ELSE nid
        item == CampItemOf(p, id)
    IN
    /\ IF p.id = "" THEN FindIndex(campStore, nid) = 0 ELSE nid = p.id
    /\ IF \/ Len(p.ids) = 0
          \/ p.cron = "" \/ ~CronValidate(p.cron)
          \/ ~ValidateTimeZone(item.tz)
          \/ Len(BadIds(p.ids)) > 0
          \/ ~FilesExist(p.media)
       THEN /\ resp' = [NoResp EXCEPT !.op = "campaign", !.code = 400]
            /\ UNCHANGED <<campStore, CAMPAIGNS, triggers, builds>>
       ELSE /\ SaveAndRebuild(CampPut(campStore, item))
            /\ resp' = [NoResp EXCEPT !.op = "campaign", !.id = id, !.code = 200]
    /\ UNCHANGED <<waReady, files, now, runs, sendReq, schedStore, SCHEDULES, timers, snaps>>

\* POST /api/campaigns/:id/enable and /disable                         (server.js:495-515)
CampSetEnabled(id, on) ==
    LET idx == FindIndex(campStore, id)
        op == IF on THEN "enable" ELSE "disable"
    IN
    /\ IF idx = 0
       THEN /\ resp' = [NoResp EXCEPT !.op = op, !.id = id, !.code = 404]
            /\ UNCHANGED <<campStore, CAMPAIGNS, triggers, builds>>
       ELSE /\ SaveAndRebuild([campStore EXCEPT ![idx].enabled = on])
            /\ resp' = [NoResp EXCEPT !.op = op, !.id = id, !.code = 200]
    /\ UNCHANGED <<waReady, files, now, runs, sendReq, schedStore, SCHEDULES, timers, snaps>>

\* DELETE /api/campaigns/:id                                           (server.js:557-565)
CampDelete(id) ==
    LET nx == SelectSeq(campStore, LAMBDA x : x.id # id)
    IN
    /\ IF Len(nx) = Len(campStore)
       THEN /\ resp' = [NoResp EXCEPT !.op = "uncampaign", !.id = id, !.code = 404]
            /\ UNCHANGED <<campStore, CAMPAIGNS, triggers, builds>>
       ELSE /\ SaveAndRebuild(nx)
            /\ resp' = [NoResp EXCEPT !.op = "uncampaign", !.id = id, !.code = 200]
    /\ UNCHANGED <<waReady, files, now, runs, sendReq, schedStore, SCHEDULES, timers, snaps>>

\* POST /api/campaigns/:id/run-now up to its await                     (server.js:518-543)
RunNow(id) ==
    LET arr == campStore
        idx == FindIndex(arr, id)
    IN
    /\ IF idx = 0
       THEN /\ resp' = [NoResp EXCEPT !.op = "runnow", !.id = id, !.code = 404]
            /\ runs' = runs
       ELSE IF ~waReady
       THEN /\ resp' = [NoResp EXCEPT !.op = "runnow", !.id = id, !.code = 409]
            /\ runs' = runs
       ELSE IF Len(BadIds(arr[idx].ids)) > 0 \/ ~FilesExist(arr[idx].media)
       THEN /\ resp' = [NoResp EXCEPT !.op = "runnow", !.id = id, !.code = 400]
            /\ runs' = runs
       ELSE /\ FreeSlots # {}
            /\ runs' = [runs EXCEPT ![FreeSlot] =
                  [BeginMany("runnow", id, 0, idx, arr[idx].ids, arr[idx].message,
                             arr[idx].media,
                             MathMax(Num(0), ToNumber(OrElse(arr[idx].mediaDelayMs,
                                                             Num(DefaultDelayMs)))),
                             MathMax(Num(PacingFloorMs),
                                     ToNumber(OrElse(arr[idx].groupDelayMs,
                                                     Num(DefaultDelayMs)))))
                   EXCEPT !.arr = arr]]
            /\ resp' = NoResp
    /\ UNCHANGED <<waReady, files, now, sendReq, oneShotVars, campaignVars>>

\* sendToMany returns to run-now: the array it loaded at entry is saved (server.js:545-550)
RunNowReturns(sl) ==
    /\ runs[sl].kind = "runnow" /\ AtLastSleep(runs[sl])
    /\ LET r == runs[sl]
       IN /\ campStore' = [r.arr EXCEPT ![r.ix].lastRunAt = now, ![r.ix].lastError = ""]
          /\ resp' = [NoResp EXCEPT !.op = "runnow", !.id = r.job, !.code = 200,
                                    !.results = r.results]
          /\ runs' = [runs EXCEPT ![sl] = NoRun]
    /\ UNCHANGED <<waReady, files, now, sendReq, oneShotVars, CAMPAIGNS, triggers>>

----------------------------------------------------------------------------
\* the process ends and starts again: memory is lost, the files stay, and the module
\* runs rearmSchedules() and scheduleCampaignEngine()           (server.js:259, 421)
Restart ==
    /\ builds < MaxBuilds
    /\ builds' = builds + 1
    /\ waReady' = FALSE
    /\ runs' = [s \in RunSlots |-> NoRun]
    /\ sendReq' = <<>>
    /\ LET re == RearmSchedules(schedStore, [x \in {} |-> 0], {},
                                [x \in SnapSlots |-> <<>>], runs')
       IN /\ SCHEDULES' = re.S
          /\ timers' = re.T
          /\ snaps' = re.N
    /\ LET e == ScheduleCampaignEngine(campStore, [x \in {} |-> 0], [x \in {} |-> 0], runs')
       IN /\ campStore' = e.store
          /\ CAMPAIGNS' = e.C
          /\ triggers' = e.G
    /\ resp' = [NoResp EXCEPT !.op = "restart"]
    /\ UNCHANGED <<files, now, schedStore>>

----------------------------------------------------------------------------
Init ==
    /\ waReady = FALSE
    /\ files \in SUBSET MediaPaths
    /\ now = 0
    /\ runs = [s \in RunSlots |-> NoRun]
    /\ resp = NoResp
    /\ sendReq = <<>>
    /\ schedStore = <<>>
    /\ SCHEDULES = [x \in {} |-> 0]
    /\ timers = {}
    /\ snaps = [x \in SnapSlots |-> <<>>]
    /\ builds = 0
    /\ campStore = <<>>
    /\ CAMPAIGNS = [x \in {} |-> 0]
    /\ triggers = [x \in {} |-> 0]

\* one immediate-send request, with any body, is on its way to the server
InitSend ==
    /\ waReady \in BOOLEAN
    /\ files \in SUBSET MediaPaths
    /\ now = 0
    /\ runs = [s \in RunSlots |-> NoRun]
    /\ resp = NoResp
    /\ sendReq \in {<<b>> : b \in SendBodies}
    /\ schedStore = <<>>
    /\ SCHEDULES = [x \in {} |-> 0]
    /\ timers = {}
    /\ snaps = [x \in SnapSlots |-> <<>>]
    /\ builds = 0
    /\ campStore = <<>>
    /\ CAMPAIGNS = [x \in {} |-> 0]
    /\ triggers = [x \in {} |-> 0]

NextSend ==
    \/ FileChange(MediaPaths)
    \/ \E body \in SendBodies : ApiSend(body)
    \/ \E s \in RunSlots : SendSettles(s)
    \/ \E s \in RunSlots : SleepEnds(s)
    \/ \E s \in RunSlots : ApiSendReturns(s)

SpecSend == InitSend /\ [][NextSend]_vars

\* One job id, with or without media, while files come and go and the transport
\* connects and disconnects.  Every job is due at once, so its timeout may fire at
\* any later step: the interleavings of all delays, without the clock.
NextOneShot ==
    \/ ClientReady
    \/ ClientNotReady
    \/ FileChange({"/uploads/1.png"})
    \/ \E p \in OneShotPayloads({"s1"}, {<<>>, <<"/uploads/1.png">>}, {0}) :
            Upsert(p, "s1")
    \/ Cancel("s1")
    \/ Delete("s1")
    \/ \E t \in timers : FireTimer(t)
    \/ \E s \in RunSlots : SendSettles(s)
    \/ \E s \in RunSlots : SleepEnds(s)
    \/ \E s \in RunSlots : TimerReturns(s)
    \/ Restart

InitOneShot == Init /\ files \subseteq {"/uploads/1.png"}

SpecOneShot == InitOneShot /\ [][NextOneShot]_vars

\* Two job ids whose payloads carry one media file, every file in place and no delete: how the jobs'
\* timers, callbacks and store writes interfere.
NextPair ==
    \/ ClientReady
    \/ \E p \in OneShotPayloads(JobIds, {<<"/uploads/1.png">>}, {0}), nid \in JobIds : Upsert(p, nid)
    \/ \E id \in JobIds : Cancel(id)
    \/ \E t \in timers : FireTimer(t)
    \/ \E s \in RunSlots : SendSettles(s)
    \/ \E s \in RunSlots : SleepEnds(s)
    \/ \E s \in RunSlots : TimerReturns(s)
    \/ Restart

InitPair == Init /\ files = MediaPaths

SpecPair == InitPair /\ [][NextPair]_vars

\* what schedules.json may hold when the process starts: jobs an earlier life of the
\* process accepted and did not get to fire
Stored(id, n) == ItemOf(GoodOneShot(id, <<"/uploads/1.png">>, n), id)

Backlogs == {SaveLoad(<<Stored("s2", 0)>>),
             SaveLoad(<<Stored("s1", 0), Stored("s2", MaxNow)>>)}

\* the process has just started on a backlog: rearmSchedules() has armed it
InitBacklog ==
    /\ waReady = FALSE
    /\ files = MediaPaths
    /\ now \in 0..MaxNow
    /\ runs = [s \in RunSlots |-> NoRun]
    /\ resp = NoResp
    /\ sendReq = <<>>
    /\ schedStore \in Backlogs
    /\ builds = 0
    /\ LET re == RearmAs(0, schedStore, [x \in {} |-> 0], {}, [x \in SnapSlots |-> <<>>], runs)
       IN /\ SCHEDULES = re.S
          /\ timers = re.T
          /\ snaps = re.N
    /\ campStore = <<>>
    /\ CAMPAIGNS = [x \in {} |-> 0]
    /\ triggers = [x \in {} |-> 0]

\* A backlog of pending jobs, the clock, and no cancel and no delete: whether and how
\* often each job fires.
NextBacklog ==
    \/ ClientReady
    \/ ClientNotReady
    \/ Tick
    \/ \E id \in JobIds : Upsert(GoodOneShot(id, <<"/uploads/1.png">>, 0), id)
    \/ \E t \in timers : FireTimer(t)
    \/ \E s \in RunSlots : SendSettles(s)
    \/ \E s \in RunSlots : SleepEnds(s)
    \/ \E s \in RunSlots : TimerReturns(s)
    \/ Restart

\* timeouts come due, sends settle and sleeps end: Node's event loop runs every
\* callback that is ready; the clock advances
FairBacklog ==
    /\ WF_vars(Tick)
    /\ WF_vars(\E t \in timers : FireTimer(t))
    /\ WF_vars(\E s \in RunSlots : SendSettles(s))
    /\ WF_vars(\E s \in RunSlots : SleepEnds(s))
    /\ WF_vars(\E s \in RunSlots : TimerReturns(s))

SpecBacklog == InitBacklog /\ [][NextBacklog]_vars /\ FairBacklog

\* One job id and the clock: jobs are due now, later, or were due before they are armed.
InitClock == Init /\ files = MediaPaths

NextClock ==
    \/ ClientReady
    \/ Tick
    \/ \E n \in 0..MaxNow : Upsert(GoodOneShot("s1", <<"/uploads/1.png">>, n), "s1")
    \/ \E t \in timers : FireTimer(t)
    \/ \E s \in RunSlots : SendSettles(s)
    \/ \E s \in RunSlots : SleepEnds(s)
    \/ \E s \in RunSlots : TimerReturns(s)
    \/ Restart

SpecClock == InitClock /\ [][NextClock]_vars

\* One job in the backlog, every job past due and the transport staying up once it is
\* up: whether every armed job is delivered.
InitDelivery == InitBacklog /\ now = MaxNow /\ Len(schedStore) = 1

NextDelivery ==
    \/ ClientReady
    \/ \E id \in JobIds : Upsert(GoodOneShot(id, <<"/uploads/1.png">>, 0), id)
    \/ \E t \in timers : FireTimer(t)
    \/ \E s \in RunSlots : SendSettles(s)
    \/ \E s \in RunSlots : SleepEnds(s)
    \/ \E s \in RunSlots : TimerReturns(s)
    \/ Restart

SpecDelivery == InitDelivery /\ [][NextDelivery]_vars /\ FairBacklog

\* Node's event loop runs every callback that is ready, with the clock standing still
FairLoop ==
    /\ WF_vars(\E t \in timers : FireTimer(t))
    /\ WF_vars(\E s \in RunSlots : SendSettles(s))
    /\ WF_vars(\E s \in RunSlots : SleepEnds(s))
    /\ WF_vars(\E s \in RunSlots : TimerReturns(s))

\* Two job ids, upserts and cancels while timers fire and callbacks finish: what a
\* request or a callback does to the record of the other job.
NextCancel ==
    \/ ClientReady
    \/ \E id \in JobIds : Upsert(GoodOneShot(id, <<"/uploads/1.png">>, 0), id)
    \/ \E id \in JobIds : Cancel(id)
    \/ \E t \in timers : FireTimer(t)
    \/ \E s \in RunSlots : SendSettles(s)
    \/ \E s \in RunSlots : SleepEnds(s)
    \/ \E s \in RunSlots : TimerReturns(s)

InitCancel == Init /\ files = MediaPaths

SpecCancel == InitCancel /\ [][NextCancel]_vars /\ FairLoop

\* The campaigns: their cron jobs tick at any time while the collection changes.
NextCampaign ==
    \/ ClientReady
    \/ ClientNotReady
    \/ \E p \in CampPayloads({"c1"}, <<"a@g.us">>), nid \in {"c1"} : CampUpsert(p, nid)
    \/ \E id \in {"c1"}, on \in BOOLEAN : CampSetEnabled(id, on)
    \/ \E id \in {"c1"} : CampDelete(id)
    \/ \E id \in {"c1"} : RunNow(id)
    \/ \E h \in DOMAIN triggers : CronFire(h)
    \/ \E s \in RunSlots : SendSettles(s)
    \/ \E s \in RunSlots : SleepEnds(s)
    \/ \E s \in RunSlots : CronReturns(s)
    \/ \E s \in RunSlots : RunNowReturns(s)
    \/ Restart

InitCampaign == Init /\ files = MediaPaths

SpecCampaign == InitCampaign /\ [][NextCampaign]_vars

\* what campaigns.json may hold when the process starts: one campaign, written by an
\* earlier life of the process or by hand, valid or invalid in one field
StoredCampaign == CampItemOf([GoodCampaign(<<"a@g.us">>) EXCEPT !.media = <<"/uploads/1.png">>], "c1")

StoredCampaigns ==
    {<<StoredCampaign>>,
     <<[StoredCampaign EXCEPT !.cron = "not-a-cron"]>>,
     <<[StoredCampaign EXCEPT !.tz = "Mars/Olympus"]>>,
     <<[StoredCampaign EXCEPT !.ids = <<"a@c.us">>]>>}

\* the process has just started on a stored campaign: scheduleCampaignEngine() has run
InitStored ==
    /\ waReady = FALSE
    /\ files \in SUBSET {"/uploads/1.png"}
    /\ now = 0
    /\ runs = [s \in RunSlots |-> NoRun]
    /\ resp = NoResp
    /\ sendReq = <<>>
    /\ schedStore = <<>>
    /\ SCHEDULES = [x \in {} |-> 0]
    /\ timers = {}
    /\ snaps = [x \in SnapSlots |-> <<>>]
    /\ builds = 0
    /\ \E raw \in StoredCampaigns :
          LET e == EngineAs(0, raw, [x \in {} |-> 0], [x \in {} |-> 0], runs)
          IN /\ campStore = e.store
             /\ CAMPAIGNS = e.C
             /\ triggers = e.G

\* One stored campaign, the transport and the media file coming and going: what the
\* engine arms and what a cron callback records.
NextStored ==
    \/ ClientReady
    \/ ClientNotReady
    \/ FileChange({"/uploads/1.png"})
    \/ \E on \in BOOLEAN : CampSetEnabled("c1", on)
    \/ \E h \in DOMAIN triggers : CronFire(h)
    \/ \E s \in RunSlots : SendSettles(s)
    \/ \E s \in RunSlots : SleepEnds(s)
    \/ \E s \in RunSlots : CronReturns(s)
    \/ Restart

SpecStored == InitStored /\ [][NextStored]_vars

----------------------------------------------------------------------------
(* Claims about the dispatcher, checked under SpecSend *)

AllRuns == {runs[s] : s \in RunSlots}

Threw(log, i) == \E j \in 1..Len(log) : log[j].i = i /\ log[j].st \in {"threw", "noent"}

\* C3: a dispatch to t1..tn returns n outcomes in input order, outcome i is ok=false
\* with an error exactly when the send to ti threw, every target is attempted
\* whatever happened to the earlier ones, and the wait follows every target
C3_PerTargetOutcomes ==
    (resp.op = "send" /\ resp.code = 200) =>
        LET ids == resp.item.ids
            n == Len(ids)
        IN /\ Len(resp.results) = n
           /\ Len(resp.waits) = n
           /\ \A i \in 1..n :
                /\ resp.results[i].id = ids[i]
                /\ resp.results[i].ok = ~Threw(resp.sends, i)
                /\ (resp.results[i].error # "") = ~resp.results[i].ok
                /\ (resp.item.media # <<>> \/ resp.item.text # "") =>
                       \E j \in 1..Len(resp.sends) : resp.sends[j].i = i

\* the first target's send threw and the second target was still sent to
C3_Witness ==
    /\ resp.op = "send" /\ resp.code = 200
    /\ Len(resp.results) = 2
    /\ ~resp.results[1].ok /\ resp.results[2].ok
    /\ \E j \in 1..Len(resp.sends) : resp.sends[j].i = 2 /\ resp.sends[j].st = "ok"
    /\ Len(resp.waits) = 2

----------------------------------------------------------------------------
(* Claims about the recurring campaigns, checked under SpecCampaign *)

\* C1: two trigger-fired executions of one campaign are never in progress at the
\* same time, however firings and rebuilds of the trigger set interleave
C1_NoOverlap ==
    \A s1, s2 \in CronRuns(runs) : runs[s1].job = runs[s2].job => s1 = s2

----------------------------------------------------------------------------
(* Claims about the one-shot schedules, checked under SpecOneShot and SpecPair *)

Terminal == {"sent", "failed", "canceled"}

PendingIds(store) == {store[j].id : j \in ArmedIndexes(store)}

\* the step just taken ran rearmSchedules(): the startup, or an upsert that saved
Rearmed == resp.op = "restart" \/ (resp.op = "upsert" /\ resp.code = 200)

\* C4: right after a re-arm the ids holding a timer are exactly the ids of the stored
\* pending jobs, each holds one live timer, and no timer of an earlier arming is left
C4_RearmExact ==
    Rearmed =>
        /\ DOMAIN SCHEDULES = PendingIds(schedStore)
        /\ timers = {SCHEDULES[id] : id \in DOMAIN SCHEDULES}
        /\ Cardinality(timers) = Cardinality(DOMAIN SCHEDULES)
        /\ \A t \in timers : t.h = builds

\* the second arming armed two jobs, one of which the first arming had armed too
C4_Witness ==
    /\ resp.op = "upsert" /\ resp.code = 200
    /\ builds = 2
    /\ DOMAIN SCHEDULES = JobIds
    /\ Cardinality(timers) = 2

\* C5: a stored job whose status is sent, failed or canceled changes status only by
\* an upsert of its id, which makes it pending; no cancel and no timer callback
\* changes it
C5_TerminalIsFinal ==
    [][\A id \in JobIds :
          (/\ StatusOf(schedStore, id) \in Terminal
           /\ StatusOf(schedStore', id) \notin {"", StatusOf(schedStore, id)})
          => /\ resp'.op = "upsert" /\ resp'.id = id /\ resp'.code = 200
             /\ StatusOf(schedStore', id) = "pending"]_vars

\* C6: a cancel of a job that is sent, failed or canceled answers success and leaves
\* the stored status as it was
C6_CancelTerminalNoOp ==
    (resp.op = "cancel" /\ resp.prev \in Terminal) =>
        /\ resp.code = 200
        /\ StatusOf(schedStore, resp.id) = resp.prev

\* C7: a cancel of an id the store has no record of answers 404 and changes neither
\* the store nor the timer table
C7_CancelNotFound ==
    [][\A id \in JobIds :
          (resp'.op = "cancel" /\ resp'.id = id /\ FindIndex(schedStore, id) = 0)
          => /\ resp'.code = 404
             /\ UNCHANGED <<schedStore, SCHEDULES, timers>>]_vars

\* a cancel was answered 404 while a live timer is held under that id
C7_Witness ==
    /\ resp.op = "cancel" /\ resp.code = 404
    /\ FindIndex(schedStore, resp.id) = 0
    /\ resp.id \in DOMAIN SCHEDULES
    /\ SCHEDULES[resp.id] \in timers
    /\ schedStore # <<>>

\* C8: an upsert of an id stored as sent replaces the record by the new item, which
\* is pending, and leaves a live timer under that id
C8_ReUpsertSent ==
    (resp.op = "upsert" /\ resp.code = 200 /\ resp.prev = "sent") =>
        LET idx == FindIndex(schedStore, resp.id)
        IN /\ idx > 0
           /\ schedStore[idx] = SaveLoad(<<resp.item>>)[1]
           /\ schedStore[idx].status = "pending"
           /\ \A j \in 1..Len(schedStore) : schedStore[j].id = resp.id => j = idx
           /\ resp.id \in DOMAIN SCHEDULES
           /\ SCHEDULES[resp.id] \in timers

\* a job that was sent has been upserted again, this time with a media file
C8_Witness ==
    /\ resp.op = "upsert" /\ resp.code = 200 /\ resp.prev = "sent"
    /\ resp.item.media # <<>>
    /\ StatusOf(schedStore, resp.id) = "pending"

\* the store has no record of id and no live timer is held under it
Gone(id) ==
    /\ FindIndex(schedStore, id) = 0
    /\ id \in DOMAIN SCHEDULES => SCHEDULES[id] \notin timers

\* C9: a delete that succeeds leaves no record and no live timer of the id, and none
\* appears again until the id is upserted
C9_DeleteIsLasting ==
    [][\A id \in JobIds :
          /\ (resp'.op = "delete" /\ resp'.id = id /\ resp'.code = 200) => Gone(id)'
          /\ (Gone(id) /\ ~Gone(id)')
             => (resp'.op = "upsert" /\ resp'.id = id /\ resp'.code = 200)]_vars

\* C10: a job that fires with the transport ready while one of its targets is not a
\* group address or one of its media files is missing is marked failed with an error,
\* and nothing is transmitted
C10_FireValidates ==
    (/\ resp.op = "fire" /\ waReady
     /\ (Len(BadIds(resp.item.ids)) > 0 \/ ~FilesExist(resp.item.media))) =>
        /\ FindIndex(schedStore, resp.id) > 0
        /\ schedStore[FindIndex(schedStore, resp.id)].status = "failed"
        /\ schedStore[FindIndex(schedStore, resp.id)].error # ""
        /\ \A j \in 1..Len(resp.sends) : resp.sends[j].st = "noent"
        /\ \A s \in TimerRuns(runs) : runs[s].job # resp.id

----------------------------------------------------------------------------
(* Claims about firing, checked under SpecBacklog *)

\* the step just taken was the callback of id finding the transport not ready
NotReadyFailure(id) == resp.op = "fire" /\ resp.id = id /\ resp.status = "failed"

\* the step just taken was the callback of id starting
Fired(id) == resp.op = "fire" /\ resp.id = id

\* the step just taken was an upsert of id that saved
Upserted(id) == resp.op = "upsert" /\ resp.code = 200 /\ resp.id = id

\* C11: a job that fires while the transport is not ready is marked failed with that
\* reason, nothing is sent, and unless it is upserted again no later arming fires it
C11_NoRetry ==
    \A id \in JobIds :
        /\ [](NotReadyFailure(id) =>
                /\ StatusOf(schedStore, id) = "failed"
                /\ schedStore[FindIndex(schedStore, id)].error = "WhatsApp not ready"
                /\ resp.sends = <<>>)
        /\ [](NotReadyFailure(id) => (<>Upserted(id) \/ [](Rearmed => []~Fired(id))))

\* C19: a job that is pending in the store when rearmSchedules() arms it, at startup
\* or after an upsert, gets to sent or failed in the store.  Nothing cancels or deletes
\* here, and a job that is upserted again is armed again, so it owes the same.
C19_EventuallySettled ==
    \A id \in JobIds :
        []((Rearmed /\ id \in DOMAIN SCHEDULES)
            => <>(StatusOf(schedStore, id) \in {"sent", "failed"}))

\* C18: when rearmSchedules() arms a pending job whose time has passed, the job is not
\* skipped: it holds a live timeout with delay 0, which is due at once
C18_PastDueFiresAtOnce ==
    Rearmed =>
        \A j \in 1..Len(schedStore) :
            (schedStore[j].status = "pending" /\ schedStore[j].when < now) =>
                /\ schedStore[j].id \in DOMAIN SCHEDULES
                /\ SCHEDULES[schedStore[j].id] \in timers
                /\ SCHEDULES[schedStore[j].id].due = now

\* the process started again after the time of a pending job had passed
C18_Witness ==
    /\ resp.op = "restart"
    /\ \E j \in 1..Len(schedStore) :
          /\ schedStore[j].status = "pending" /\ schedStore[j].when < now
          /\ SCHEDULES[schedStore[j].id] \in timers

----------------------------------------------------------------------------
(* Claims about what the engine arms and what a run records, checked under
   SpecStored and SpecCampaign *)

\* the step just taken ran scheduleCampaignEngine(): the startup, or a request that
\* changed the collection
Rebuilt ==
    \/ resp.op = "restart"
    \/ resp.op \in {"campaign", "enable", "disable", "uncampaign"} /\ resp.code = 200

\* in CAMPAIGNS C with cron jobs G, id holds a cron job that has not been stopped
ArmedIn(C, G, id) == id \in DOMAIN C /\ C[id] \in DOMAIN G /\ ~G[C[id]].stopped

Armed(id) == ArmedIn(CAMPAIGNS, triggers, id)

StoredIds(store) == {store[j].id : j \in 1..Len(store)}

\* C12: after a rebuild every stored campaign whose CRON does not validate is saved
\* with enabled=false and holds no cron job; the rebuild answers without an error and
\* removes no record
C12_InvalidCronDisabled ==
    [][Rebuilt' =>
          /\ \A j \in 1..Len(campStore') :
                ~CronValidate(campStore'[j].cron) =>
                    /\ ~campStore'[j].enabled
                    /\ ~ArmedIn(CAMPAIGNS', triggers', campStore'[j].id)
          /\ resp'.op \in {"restart", "enable", "disable"} =>
                StoredIds(campStore') = StoredIds(campStore)]_vars

\* an enable request for a campaign whose CRON does not validate was answered, and the
\* engine has saved the campaign as disabled
C12_Witness ==
    /\ resp.op = "enable" /\ resp.code = 200
    /\ FindIndex(campStore, resp.id) > 0
    /\ ~CronValidate(campStore[FindIndex(campStore, resp.id)].cron)
    /\ ~campStore[FindIndex(campStore, resp.id)].enabled
    /\ ~Armed(resp.id)

\* C13: after a rebuild every stored campaign whose timezone does not validate is
\* saved with enabled=false and holds no cron job
C13_InvalidTzDisabled ==
    Rebuilt =>
        \A j \in 1..Len(campStore) :
            ~ValidateTimeZone(campStore[j].tz) =>
                /\ ~campStore[j].enabled
                /\ ~Armed(campStore[j].id)

\* C14: when a cron-fired run has completed, the stored record has lastRunAt at the
\* completion time and no lastError, whatever an earlier run left there
C14_SuccessClearsError ==
    (resp.op = "cronfired" /\ resp.status = "ok" /\ FindIndex(campStore, resp.id) > 0) =>
        /\ campStore[FindIndex(campStore, resp.id)].lastRunAt = now
        /\ campStore[FindIndex(campStore, resp.id)].lastError = ""

C16_RunNowRecords ==
    (resp.op = "runnow" /\ resp.code \in {200, 400, 409}) =>
        LET idx == FindIndex(campStore, resp.id)
        IN /\ idx > 0
           /\ campStore[idx].lastRunAt = now
           /\ (resp.code = 200) => campStore[idx].lastError = ""
           /\ (resp.code # 200) => campStore[idx].lastError # ""

\* C17: the ids that hold an armed cron job are the ids of the stored campaigns that
\* are enabled with a valid CRON, in every state
C17_TriggersMatchStore ==
    {id \in CampIds : Armed(id)} =
        {campStore[j].id : j \in {m \in 1..Len(campStore) :
                                     campStore[m].enabled /\ CronValidate(campStore[m].cron)}}

----------------------------------------------------------------------------
(* Claims about the sends to one target, checked under SpecSend *)

\* the transmissions the dispatcher owes one target: what is sent, with which caption
Expected(text, media) ==
    IF Len(media) = 0
    THEN IF text = "" THEN <<>> ELSE <<[item |-> "text", caption |-> "undefined"]>>
    ELSE [k \in 1..Len(media) |->
             [item |-> media[k], caption |-> IF k = 1 THEN text ELSE "undefined"]]

\* the transmissions the log shows for target i, in the order they were made
SendsTo(log, i) ==
    LET mine == SelectSeq(log, LAMBDA e : e.i = i /\ e.st # "noent")
    IN [j \in 1..Len(mine) |-> [item |-> mine[j].item, caption |-> mine[j].caption]]

----------------------------------------------------------------------------
(* Claims about how timers, callbacks and requests interleave, checked under
   SpecDelivery and SpecCancel *)

\* the step just taken was the callback of id handing the job to sendToMany
Dispatched(id) == Fired(id) /\ resp.status # "failed"

\* C21: once a job has been handed to the dispatcher it is not handed over a second
\* time, unless its id is upserted again or the process starts again, whatever other
\* job is upserted while the dispatch is in progress
C21_OncePerUpsert ==
    \A id \in JobIds :
        [](Dispatched(id) =>
              \/ <>Upserted(id)
              \/ <>(resp.op = "restart")
              \/ [](~Dispatched(id) => []~Dispatched(id)))

\* the record the store holds for id, NoItem when it holds none
RecordOf(store, id) == IF FindIndex(store, id) = 0 THEN NoItem ELSE store[FindIndex(store, id)]

\* the step just taken was a request about id that was answered 200, or the callback of
\* id's own timer
OwnStep(id) ==
    /\ resp.id = id
    /\ \/ resp.op \in {"upsert", "cancel", "delete"} /\ resp.code = 200
       \/ resp.op \in {"fire", "fired"}

\* C22: the record of a stored job changes or disappears only by a request about that
\* job or by the callback of its own timer; the write of another job's callback leaves
\* it as it was
C22_RecordKept ==
    [][\A id \in JobIds :
          (FindIndex(schedStore, id) > 0 /\ RecordOf(schedStore', id) # RecordOf(schedStore, id))
          => OwnStep(id)']_vars

\* the step just taken was a successful cancel of id, which was pending with no callback
\* of its timer started
CanceledInTime(id) ==
    /\ resp.op = "cancel" /\ resp.id = id /\ resp.code = 200 /\ resp.prev = "pending"
    /\ \A s \in TimerRuns(runs) : runs[s].job # id

\* C23: a job canceled while pending, before its timer fired, stays canceled in the
\* store and is never dispatched, unless it is upserted again
C23_CancelHolds ==
    \A id \in JobIds :
        [](CanceledInTime(id) =>
              \/ <>Upserted(id)
              \/ [](StatusOf(schedStore, id) = "canceled" /\ ~Fired(id)))

----------------------------------------------------------------------------
(* Claims about run-now and the running flag, checked under SpecCampaign *)

\* record b is record a, but for the outcome of a run
SameButOutcome(a, b) ==
    [b EXCEPT !.lastRunAt = NoTime, !.lastError = ""] =
        [a EXCEPT !.lastRunAt = NoTime, !.lastError = ""]

\* C24: when a run-now finishes and writes its outcome, the store holds what it held
\* just before, changed only in lastRunAt and lastError of the campaign that ran:
\* nothing that was saved while the run was dispatching is undone
C24_RunNowKeepsChanges ==
    [][(resp'.op = "runnow" /\ resp'.code = 200) =>
          /\ Len(campStore') = Len(campStore)
          /\ \A j \in 1..Len(campStore) :
                IF campStore[j].id = resp'.id
                THEN SameButOutcome(campStore[j], campStore'[j])
                ELSE campStore'[j] = campStore[j]]_vars

\* C25: the running flag of a cron job is set exactly while a callback of that job is
\* suspended in its dispatch: it is set when the callback starts to dispatch and it is
\* reset when the callback ends, however the run ends
C25_RunningReleased ==
    \A h \in DOMAIN triggers : triggers[h].running <=> HasRun(runs, h)

\* a cron-fired run has just ended, and no flag is left set
C25_Witness ==
    /\ resp.op = "cronfired"
    /\ DOMAIN triggers # {}
    /\ CronRuns(runs) = {}
    /\ \A h \in DOMAIN triggers : ~triggers[h].running

\* the run slots that hold an execution
Busy(R) == {s \in RunSlots : R[s] # NoRun}

\* C26: a tick that finds the flag set changes nothing: no send, no write to the store,
\* the flag stays set; and when the execution in progress ends, no other execution
\* starts in its place and the flag is free for the next tick
C26_SkipIsNoOp ==
    [][/\ resp'.op = "cronskip" =>
            /\ \E h \in DOMAIN triggers :
                  triggers[h].c.id = resp'.id /\ triggers[h].running /\ triggers'[h].running
            /\ UNCHANGED <<runs, campStore, CAMPAIGNS, triggers, waReady, files>>
       /\ resp'.op = "cronfired" =>
            /\ Busy(runs') \subseteq Busy(runs) /\ Busy(runs') # Busy(runs)
            /\ \A s \in Busy(runs') : runs'[s] = runs[s]
            /\ \A h \in DOMAIN triggers' :
                  (triggers'[h].c.id = resp'.id /\ ~HasRun(runs', h)) => ~triggers'[h].running]_vars

\* a tick was omitted while the execution in progress had a send under way
C26_Witness ==
    /\ resp.op = "cronskip"
    /\ \E s \in CronRuns(runs) : runs[s].job = resp.id /\ runs[s].pc = "send"

====
